---- MODULE Spec2Model ----
(***************************************************************************)
(* A model of pik's cache-aligned allocator (cache_aligned.h) and of the   *)
(* single-lane "scalar" SIMD backend (simd/scalar.h).                      *)
(*                                                                         *)
(* Machine words wider than TLC's integers (size_t, uint32_t, uint64_t,    *)
(* float and double bit patterns) are tuples of bytes, least significant   *)
(* byte first, so every operation keeps its width.                         *)
(***************************************************************************)
EXTENDS Integers, Sequences, FiniteSets, TLC

VARIABLES heap, mem, owners, lastCall, status, call, ret

vars == <<heap, mem, owners, lastCall, status, call, ret>>
allocVars == <<heap, mem, owners, lastCall, status>>
pureVars == <<call, ret>>

(***************************************************************************)
(* Machine words as little-endian byte tuples                              *)
(***************************************************************************)

\* A function on 1..n as a tuple.
Tup(f) == f \o <<>>

\* Byte i (0 = lowest) of the two's-complement integer n.
ByteOf(n, i) ==
  IF i >= 4 THEN (IF n < 0 THEN 255 ELSE 0)
  ELSE IF i = 3 THEN (n \div 16777216) % 256
  ELSE (n \div (256 ^ i)) % 256

\* The k-byte two's-complement pattern of the integer n.
WordOf(n, k) == Tup([i \in 1..k |-> ByteOf(n, i - 1)])

WZero(k) == Tup([i \in 1..k |-> 0])

WOnes(k) == Tup([i \in 1..k |-> 255])

\* 2^j for j < 31.
Pow2(j) == 2 ^ j

\* The k-byte pattern with only bit b set: 1 << b.
WBit(b, k) ==
  Tup([i \in 1..k |-> IF i = (b \div 8) + 1 THEN Pow2(b % 8) ELSE 0])

\* The k-byte pattern with bits 0..b-1 set: (1 << b) - 1.
WLowMask(b, k) ==
  Tup([i \in 1..k |->
         IF i <= b \div 8 THEN 255
         ELSE IF i = (b \div 8) + 1 THEN Pow2(b % 8) - 1
         ELSE 0])

\* The value of a word of at most 3 significant bytes.
WVal(x) ==
  (IF Len(x) >= 1 THEN x[1] ELSE 0)
  + (IF Len(x) >= 2 THEN 256 * x[2] ELSE 0)
  + (IF Len(x) >= 3 THEN 65536 * x[3] ELSE 0)

\* x + y modulo 256^k, by ripple carry from byte i with carry c.
RECURSIVE WAddFrom(_, _, _, _)
WAddFrom(x, y, i, c) ==
  IF i > Len(x) THEN <<>>
  ELSE <<(x[i] + y[i] + c) % 256>>
       \o WAddFrom(x, y, i + 1, (x[i] + y[i] + c) \div 256)

WAdd(x, y) == WAddFrom(x, y, 1, 0)

\* Bitwise operations on two bytes.
And8(a, b) ==
  LET bit(v, j) == (v \div Pow2(j)) % 2
  IN bit(a, 0) * bit(b, 0) + 2 * bit(a, 1) * bit(b, 1)
     + 4 * bit(a, 2) * bit(b, 2) + 8 * bit(a, 3) * bit(b, 3)
     + 16 * bit(a, 4) * bit(b, 4) + 32 * bit(a, 5) * bit(b, 5)
     + 64 * bit(a, 6) * bit(b, 6) + 128 * bit(a, 7) * bit(b, 7)

WAnd(x, y) == Tup([i \in 1..Len(x) |-> And8(x[i], y[i])])

WNot(x) == Tup([i \in 1..Len(x) |-> 255 - x[i]])

WOr(x, y) == Tup([i \in 1..Len(x) |-> x[i] + y[i] - And8(x[i], y[i])])

WXor(x, y) ==
  Tup([i \in 1..Len(x) |-> x[i] + y[i] - 2 * And8(x[i], y[i])])

\* Byte i of x, zero beyond either end.
WByte(x, i) == IF i >= 1 /\ i <= Len(x) THEN x[i] ELSE 0

\* x << b and x >> b (logical) within the width of x.
WShl(x, b) ==
  Tup([i \in 1..Len(x) |->
         (WByte(x, i - (b \div 8)) * Pow2(b % 8)
          + (WByte(x, i - (b \div 8) - 1) * Pow2(b % 8)) \div 256) % 256])

WShr(x, b) ==
  Tup([i \in 1..Len(x) |->
         ((WByte(x, i + (b \div 8)) + 256 * WByte(x, i + (b \div 8) + 1))
          \div Pow2(b % 8)) % 256])

\* Conversion of an unsigned (zero-extended) or signed (sign-extended) value
\* to a type of k bytes; a narrower k keeps the low bytes.
WZExt(x, k) == Tup([i \in 1..k |-> IF i <= Len(x) THEN x[i] ELSE 0])

WSExt(x, k) ==
  Tup([i \in 1..k |->
         IF i <= Len(x) THEN x[i]
         ELSE IF x[Len(x)] >= 128 THEN 255 ELSE 0])

WTrunc(x, k) == SubSeq(x, 1, k)

\* x * b for one byte b, modulo 256^k, from byte i with carry c.
RECURSIVE WMulByteFrom(_, _, _, _)
WMulByteFrom(x, b, i, c) ==
  IF i > Len(x) THEN <<>>
  ELSE <<(x[i] * b + c) % 256>>
       \o WMulByteFrom(x, b, i + 1, (x[i] * b + c) \div 256)

\* x * y modulo 256^k (schoolbook, one byte of y at a time).
RECURSIVE WMulFrom(_, _, _)
WMulFrom(x, y, i) ==
  IF i > Len(y) THEN WZero(Len(x))
  ELSE IF y[i] = 0 THEN WMulFrom(x, y, i + 1)
  ELSE WAdd(WShl(WMulByteFrom(x, y[i], 1, 0), 8 * (i - 1)),
            WMulFrom(x, y, i + 1))

WMul(x, y) == WMulFrom(x, y, 1)

\* Unsigned x < y.
RECURSIVE WLtFrom(_, _, _)
WLtFrom(x, y, i) ==
  IF i = 0 THEN FALSE
  ELSE IF x[i] # y[i] THEN x[i] < y[i]
       ELSE WLtFrom(x, y, i - 1)

WLt(x, y) == WLtFrom(x, y, Len(x))

WIsZero(x) == \A i \in 1..Len(x) : x[i] = 0

\* The top (sign) bit of x.
WTop(x) == x[Len(x)] \div 128

(***************************************************************************)
(* CacheAligned: the machine                                               *)
(***************************************************************************)

kPointerSize == 8

kCacheLineSize == 64

\* sizeof(size_t)
SizeBytes == 8

\* The model's heap: HeapWords pointer-sized words starting above null.
HeapWords == 18

\* The largest small request, in bytes, that callers make.
MaxBytes == 9

\* How many pointers and handles the callers hold at a time.
MaxOwners == 2

Null == 0

HeapLo == kPointerSize

HeapHi == HeapLo + kPointerSize * HeapWords

HeapAddrs == HeapLo..(HeapHi - 1)

\* A byte whose content is indeterminate (never written, or released).
Indet == -1

\* An address beyond the model's heap, standing for any far pointer value.
FarAddr == 16777216

SizeOf(n) == WordOf(n, SizeBytes)

\* A size_t that is small enough to be a length in the model's heap.
IsSmall(x) == \A i \in 3..Len(x) : x[i] = 0

SmallVal(x) == WVal(WTrunc(x, 2))

\* Byte i (1 = lowest) of a pointer value, as memcpy lays it out.
PtrByte(a, i) == IF i <= 3 THEN (a \div (256 ^ (i - 1))) % 256 ELSE 0

\* The pointer value held in the kPointerSize bytes at address at; Indet when
\* one of them is indeterminate.
PtrAt(m, at) ==
  LET b == [i \in 1..kPointerSize |-> m[at + i - 1]]
  IN IF \E i \in 1..kPointerSize : b[i] = Indet THEN Indet
     ELSE IF \E i \in 4..kPointerSize : b[i] # 0 THEN FarAddr
     ELSE b[1] + 256 * b[2] + 65536 * b[3]

Block(base, size) == [base |-> base, size |-> size]

BlockAddrs(blk) == blk.base..(blk.base + blk.size - 1)

\* What the underlying malloc(size) may return: null, or the base of a
\* block of size bytes, pointer-aligned, disjoint from every live block.
MallocResults(size, h) ==
  {Null} \cup
  (IF ~IsSmall(size) THEN {}
   ELSE {b \in HeapAddrs :
           /\ b % kPointerSize = 0
           /\ b + SmallVal(size) <= HeapHi
           /\ \A blk \in h :
                \/ b + SmallVal(size) <= blk.base
                \/ blk.base + blk.size <= b})

\* The underlying free(p): releases the live block that starts at p, whose
\* bytes become indeterminate; free(null) does nothing; any other p is
\* undefined behaviour of the C library (ok = FALSE).
UnderlyingFree(h, m, p) ==
  IF p = Null THEN [ok |-> TRUE, heap |-> h, mem |-> m]
  ELSE IF \E blk \in h : blk.base = p
  THEN LET blk == CHOOSE k \in h : k.base = p
       IN [ok |-> TRUE, heap |-> h \ {blk},
           mem |-> [a \in HeapAddrs |->
                      IF a \in BlockAddrs(blk) THEN Indet ELSE m[a]]]
  ELSE [ok |-> FALSE, heap |-> h, mem |-> m]

(***************************************************************************)
(* CacheAligned::Allocate and CacheAligned::Free                           *)
(***************************************************************************)

\* PIK_ASSERT(bytes < 1ULL << 63)
SizeAssert(bytes) == WLt(bytes, WBit(63, SizeBytes))

Misalignment(allocated) == allocated % kCacheLineSize

AlignedForAddsMisalignment(allocated) ==
  allocated + kCacheLineSize + Misalignment(allocated)

AlignedForRoundsUp(allocated) ==
  allocated + ((kCacheLineSize - Misalignment(allocated)) % kCacheLineSize)

AlignedFor(allocated) == allocated + kCacheLineSize - Misalignment(allocated)

HeaderAddr(aligned) == aligned - kPointerSize

WriteHeaderStoresAligned(m, aligned, allocated) ==
  [a \in HeapAddrs |->
     IF a >= HeaderAddr(aligned) /\ a < aligned
     THEN PtrByte(aligned, a - HeaderAddr(aligned) + 1)
     ELSE m[a]]

\* memcpy(aligned - kPointerSize, &allocated, kPointerSize)
WriteHeader(m, aligned, allocated) ==
  [a \in HeapAddrs |->
     IF a >= HeaderAddr(aligned) /\ a < aligned
     THEN PtrByte(allocated, a - HeaderAddr(aligned) + 1)
     ELSE m[a]]

\* The body of Allocate once the size assertion has passed and malloc has
\* returned r.
AllocateBody(r, m, h, size) ==
  IF r = Null
  THEN [status |-> "running", ret |-> Null, mem |-> m, heap |-> h, wrote |-> {}]
  ELSE IF Misalignment(r) % kPointerSize # 0
  THEN [status |-> "aborted", ret |-> -1, mem |-> m, heap |-> h, wrote |-> {}]
  ELSE [status |-> "running", ret |-> AlignedFor(r),
        mem |-> WriteHeader(m, AlignedFor(r), r),
        heap |-> h \cup {Block(r, SmallVal(size))},
        wrote |-> HeaderAddr(AlignedFor(r))..(AlignedFor(r) - 1)]

\* CacheAligned::Allocate(bytes), with r the underlying malloc's answer
\* (r = -1: malloc was not reached).
CacheAlignedAllocate(bytes, r, m, h) ==
  IF ~SizeAssert(bytes)
  THEN [status |-> "aborted", ret |-> -1, mem |-> m, heap |-> h, wrote |-> {}]
  ELSE AllocateBody(r, m, h, WAdd(bytes, SizeOf(kCacheLineSize)))

MallocAnswers(bytes, h) ==
  IF SizeAssert(bytes)
  THEN MallocResults(WAdd(bytes, SizeOf(kCacheLineSize)), h)
  ELSE {-1}

FreeAssertsAlignmentOnly(aligned, allocated) ==
  aligned % kCacheLineSize = 0

\* The three assertions of Free on the pointer and the header value it read.
FreeAsserts(aligned, allocated) ==
  /\ aligned % kCacheLineSize = 0
  /\ allocated <= aligned - kPointerSize
  /\ allocated >= aligned - kCacheLineSize

\* CacheAligned::Free(aligned) when the header read back as hdr.
\* farg is the address handed to the underlying free (-1: none).
CacheAlignedFree(aligned, hdr, m, h) ==
  IF aligned = Null
  THEN [status |-> "running", farg |-> -1, mem |-> m, heap |-> h]
  ELSE IF ~FreeAsserts(aligned, hdr)
  THEN [status |-> "aborted", farg |-> -1, mem |-> m, heap |-> h]
  ELSE LET f == UnderlyingFree(h, m, hdr)
       IN [status |-> IF f.ok THEN "running" ELSE "crashed",
           farg |-> hdr, mem |-> f.mem, heap |-> f.heap]

\* What memcpy(&allocated, aligned - kPointerSize, kPointerSize) may read:
\* the bytes stored there, or, when they are indeterminate (the block was
\* released), any value: the original address if the bytes survived, or
\* a value just above, on, or just below the bounds that Free asserts.
HeaderReads(m, aligned, original) ==
  IF aligned = Null THEN {-1}
  ELSE IF aligned < HeapLo + kPointerSize \/ aligned > HeapHi THEN {FarAddr}
  ELSE IF PtrAt(m, HeaderAddr(aligned)) # Indet
  THEN {PtrAt(m, HeaderAddr(aligned))}
  ELSE {original, aligned, aligned - kCacheLineSize,
        aligned - kCacheLineSize - kPointerSize}

(***************************************************************************)
(* Callers of the allocator                                                *)
(***************************************************************************)

\* Requests too large for any heap: 2^63 - 1, 2^63, 2^63 + 1, 2^64 - 1.
HugeSizes ==
  {WLowMask(63, SizeBytes), WBit(63, SizeBytes),
   WAdd(WBit(63, SizeBytes), SizeOf(1)), WOnes(SizeBytes)}

RawSizes == {SizeOf(0), SizeOf(1), SizeOf(MaxBytes)} \cup HugeSizes

\* sizeof(T) of the objects built by pik::Allocate<T>.
ObjSizes == {1, kPointerSize}

\* sizeof(T) of the elements of AllocateArray<T>.
ElemSizes == {1, 2, 8}

\* Element counts: small ones, and ones whose byte size passes 2^63 or 2^64.
EntryChoices ==
  {SizeOf(1), WAdd(WBit(63, SizeBytes), SizeOf(1)),
   WAdd(WBit(61, SizeBytes), SizeOf(1))}

\* The byte values callers store in their buffers.
UserBytes == {255}

\* The byte a constructor stores throughout its object.
CtorByte == 1

Owner(kind, ptr, bytes, base, ev) ==
  [kind |-> kind, ptr |-> ptr, bytes |-> IF ptr = Null THEN 0 ELSE bytes,
   base |-> base, ev |-> ev, live |-> TRUE]

Room == Cardinality(owners) < MaxOwners

NoCall ==
  [op |-> "none", bytes |-> <<>>, mret |-> -1, ret |-> -1, hdr |-> -1,
   farg |-> -1, base |-> -1, ev |-> <<>>, nullWrite |-> FALSE, wrote |-> {},
   entries |-> <<>>, esize |-> 0, mcalls |-> 0, kind |-> "none"]

NoOp == [op |-> "none"]

AllocIdle ==
  /\ heap = {}
  /\ mem = [a \in HeapAddrs |-> Indet]
  /\ owners = {}
  /\ lastCall = NoCall
  /\ status = "running"

PureIdle == call = NoOp /\ ret = <<>>

Init == AllocIdle /\ PureIdle

\* A direct call of CacheAligned::Allocate(bytes); the caller keeps the
\* pointer it gets.
RawAllocate ==
  /\ status = "running"
  /\ Room
  /\ \E bytes \in RawSizes :
       \E r \in MallocAnswers(bytes, heap) :
         \E a \in {CacheAlignedAllocate(bytes, r, mem, heap)} :
            /\ heap' = a.heap
            /\ mem' = a.mem
            /\ status' = a.status
            /\ owners' = IF a.status = "running" /\ a.ret # Null
                         THEN owners \cup
                              {Owner("raw", a.ret, SmallVal(bytes), r, <<>>)}
                         ELSE owners
            /\ lastCall' = [NoCall EXCEPT !.op = "Allocate", !.bytes = bytes,
                              !.mret = r, !.ret = a.ret, !.wrote = a.wrote,
                              !.mcalls = IF r = -1 THEN 0 ELSE 1]
  /\ UNCHANGED pureVars

\* CacheAligned::Free(o.ptr) by the caller of a direct Allocate. With keep
\* the caller goes on holding the (now dangling) pointer.
FreeCall(o, opname, keep) ==
  \E hdr \in HeaderReads(mem, o.ptr, o.base) :
    \E f \in {CacheAlignedFree(o.ptr, hdr, mem, heap)} :
       /\ heap' = f.heap
       /\ mem' = f.mem
       /\ status' = f.status
       /\ owners' = IF keep
                    THEN (owners \ {o})
                         \cup {[o EXCEPT !.live = FALSE, !.bytes = 0]}
                    ELSE owners \ {o}
       /\ lastCall' = [NoCall EXCEPT !.op = opname, !.ret = o.ptr,
                         !.hdr = hdr, !.farg = f.farg, !.base = o.base]

RawFree ==
  /\ status = "running"
  /\ \E o \in owners : o.kind = "raw" /\ o.live /\ FreeCall(o, "Free", FALSE)
  /\ UNCHANGED pureVars

\* CacheAligned::Free(nullptr)
FreeNull ==
  /\ status = "running"
  /\ \E f \in {CacheAlignedFree(Null, -1, mem, heap)} :
        /\ heap' = f.heap
        /\ mem' = f.mem
        /\ status' = f.status
        /\ lastCall' = [NoCall EXCEPT !.op = "FreeNull", !.ret = Null,
                          !.farg = f.farg]
  /\ UNCHANGED <<owners, call, ret>>

\* The caller stores a byte at the first or the last byte of its buffer.
CallerWrite ==
  /\ status = "running"
  /\ \E o \in owners :
       /\ o.live /\ o.ptr # Null /\ o.bytes > 0
       /\ \E off \in {0, o.bytes - 1} : \E v \in UserBytes :
            /\ mem[o.ptr + off] # v
            /\ mem' = [mem EXCEPT ![o.ptr + off] = v]
  /\ lastCall' = [NoCall EXCEPT !.op = "write"]
  /\ UNCHANGED <<heap, owners, status, call, ret>>

\* new (mem) T(args...): whether the constructor runs. On a null mem the
\* behaviour is undefined: a build that checks placement new's result skips
\* the constructor (checked), one that does not runs it on address 0.
CtorRuns(memPtr, checked) == memPtr # Null \/ ~checked

\* pik::Allocate<T>(args...) for a T of sz bytes.
AllocateObject ==
  /\ status = "running"
  /\ Room
  /\ \E sz \in ObjSizes : \E r \in MallocAnswers(SizeOf(sz), heap) :
     \E checked \in BOOLEAN :
     \E a \in {CacheAlignedAllocate(SizeOf(sz), r, mem, heap)} :
       LET ctor == a.status = "running" /\ CtorRuns(a.ret, checked)
           ev == IF ctor THEN <<"ctor">> ELSE <<>>
       IN /\ (a.ret # Null => checked)
          /\ heap' = a.heap
          /\ mem' = IF ctor /\ a.ret # Null
                    THEN [x \in HeapAddrs |->
                            IF x >= a.ret /\ x < a.ret + sz THEN CtorByte
                            ELSE a.mem[x]]
                    ELSE a.mem
          /\ status' = IF ctor /\ a.ret = Null THEN "crashed" ELSE a.status
          /\ owners' = IF a.status = "running" /\ ~(ctor /\ a.ret = Null)
                       THEN owners \cup {Owner("obj", a.ret, sz, r, ev)}
                       ELSE owners
          /\ lastCall' = [NoCall EXCEPT !.op = "AllocateObject",
                            !.bytes = SizeOf(sz), !.mret = r, !.ret = a.ret,
                            !.wrote = a.wrote, !.ev = ev,
                            !.nullWrite = ctor /\ a.ret = Null,
                            !.mcalls = IF r = -1 THEN 0 ELSE 1]
  /\ UNCHANGED pureVars

\* entries * sizeof(T), in size_t.
ArrayBytes(entries, esize) == WMul(entries, SizeOf(esize))

\* pik::AllocateArray<T>(entries) for a T of esize bytes.
AllocateArray ==
  /\ status = "running"
  /\ Room
  /\ \E entries \in EntryChoices : \E esize \in ElemSizes :
     \E bytes \in {ArrayBytes(entries, esize)} :
     \E r \in MallocAnswers(bytes, heap) :
     \E a \in {CacheAlignedAllocate(bytes, r, mem, heap)} :
          /\ heap' = a.heap
          /\ mem' = a.mem
          /\ status' = a.status
          /\ owners' = IF a.status = "running"
                       THEN owners \cup
                            {Owner("arr", a.ret, SmallVal(bytes), r, <<>>)}
                       ELSE owners
          /\ lastCall' = [NoCall EXCEPT !.op = "AllocateArray",
                            !.bytes = bytes, !.mret = r, !.ret = a.ret,
                            !.wrote = a.wrote, !.entries = entries,
                            !.esize = esize,
                            !.mcalls = IF r = -1 THEN 0 ELSE 1]
  /\ UNCHANGED pureVars

DeleterFreesFirst(kind) ==
  IF kind = "obj" THEN <<"free", "dtor">> ELSE <<"free">>

\* The deleter of a handle: DestroyAndAlignedFree<T> for an object
\* (t->~T(); CacheAligned::Free(t)), CacheAligned::Free for an array.
DeleterSteps(kind) == IF kind = "obj" THEN <<"dtor", "free">> ELSE <<"free">>

\* Whether [ptr, ptr + n) lies in a live block.
InLive(ptr, n, h) ==
  \E blk \in h : ptr >= blk.base /\ ptr + n <= blk.base + blk.size

\* Runs the deleter's steps on ptr in order; a destructor on released
\* memory is a use after free.
RECURSIVE RunSteps(_, _, _)
RunSteps(steps, o, st) ==
  IF steps = <<>> \/ st.status # "running" THEN st
  ELSE IF Head(steps) = "dtor"
  THEN RunSteps(Tail(steps), o,
         [st EXCEPT !.ev = Append(@, "dtor"),
                    !.status = IF InLive(o.ptr, o.bytes, st.heap)
                               THEN "running" ELSE "crashed"])
  ELSE LET f == CacheAlignedFree(o.ptr, st.hdr, st.mem, st.heap)
       IN RunSteps(Tail(steps), o,
            [st EXCEPT !.ev = Append(@, "free"), !.status = f.status,
                       !.mem = f.mem, !.heap = f.heap, !.farg = f.farg])

\* ~unique_ptr(): calls the deleter if and only if the pointer is not null.
UniquePtrSteps(o) == IF o.ptr = Null THEN <<>> ELSE DeleterSteps(o.kind)

\* A handle returned by pik::Allocate<T> or AllocateArray<T> goes out of scope.
ReleaseHandle ==
  /\ status = "running"
  /\ \E o \in owners :
       /\ o.kind \in {"obj", "arr"}
       /\ \E hdr \in HeaderReads(mem, o.ptr, o.base) :
            \E st \in {RunSteps(UniquePtrSteps(o), o,
                         [status |-> "running", mem |-> mem, heap |-> heap,
                          farg |-> -1, hdr |-> hdr, ev |-> o.ev])} :
               /\ heap' = st.heap
               /\ mem' = st.mem
               /\ status' = st.status
               /\ owners' = owners \ {o}
               /\ lastCall' = [NoCall EXCEPT !.op = "Release", !.ret = o.ptr,
                                 !.hdr = hdr, !.farg = st.farg,
                                 !.base = o.base, !.ev = st.ev,
                                 !.kind = o.kind]
  /\ UNCHANGED pureVars

Next ==
  \/ RawAllocate
  \/ RawFree
  \/ FreeNull
  \/ CallerWrite
  \/ AllocateObject
  \/ AllocateArray
  \/ ReleaseHandle

Spec == Init /\ [][Next]_vars

\* A caller that frees a pointer and keeps it (one such pointer at a time).
RawFreeKeep ==
  /\ status = "running"
  /\ \A d \in owners : d.live
  /\ \E o \in owners : o.kind = "raw" /\ o.live /\ FreeCall(o, "Free", TRUE)
  /\ UNCHANGED pureVars

\* A second CacheAligned::Free of a pointer that was already freed. What
\* the program does after a second free that reached the underlying free is
\* undefined: the model stops there ("misused").
FreeAgain ==
  /\ status = "running"
  /\ \E o \in owners :
       /\ ~o.live
       /\ \E hdr \in HeaderReads(mem, o.ptr, o.base) :
          \E f \in {CacheAlignedFree(o.ptr, hdr, mem, heap)} :
            /\ heap' = f.heap
            /\ mem' = f.mem
            /\ status' = IF f.status = "running" THEN "misused" ELSE f.status
            /\ owners' = owners \ {o}
            /\ lastCall' = [NoCall EXCEPT !.op = "FreeAgain", !.ret = o.ptr,
                              !.hdr = hdr, !.farg = f.farg, !.base = o.base]
  /\ UNCHANGED pureVars

NextMisuse ==
  \/ RawAllocate
  \/ RawFree
  \/ CallerWrite
  \/ RawFreeKeep
  \/ FreeAgain

SpecMisuse == Init /\ [][NextMisuse]_vars

(***************************************************************************)
(* CacheAligned::StreamCacheLine                                           *)
(***************************************************************************)

\* How many source patterns the copies are tried on.
MaxSeed == 15

\* sizeof(T) of the element types.
StreamSizes == {1, 2, 4, 8}

\* Part<T, 16 / sizeof(T), SIMD_TARGET>: the lanes of the vector type.
PartLanes(sizeofT) == 16 \div sizeofT

\* The bytes one load(d, p) or stream(p, d, v) moves: the whole part on a
\* vector target, the single lane on the scalar target.
VecBytes(target, sizeofT) ==
  IF target = "NONE" THEN sizeofT ELSE PartLanes(sizeofT) * sizeofT

\* The byte offset of the pointer p + k for a T* p.
PtrOffset(k, sizeofT) == k * sizeofT

\* The destination region, with some bytes past the cache line.
DestLen == kCacheLineSize + 16

\* The bytes (offsets from the argument pointers) that the four loads read
\* and the four stores write.
Touched(target, sizeofT) ==
  UNION {PtrOffset(k, sizeofT)..(PtrOffset(k, sizeofT)
                                   + VecBytes(target, sizeofT) - 1) :
           k \in 0..3}

\* The destination after stream(to + 0, d, v0) .. stream(to + 3, d, v3),
\* where vk = load(d, from + k): the last store to a byte decides it.
StreamCacheLine(target, sizeofT, from, to) ==
  [i \in 0..(DestLen - 1) |->
     IF i \in Touched(target, sizeofT) THEN from[i] ELSE to[i]]

InitStream ==
  /\ AllocIdle
  /\ ret = <<>>
  /\ call \in
      {[op |-> "StreamCacheLine", target |-> t, size |-> sz,
        from |-> [i \in 0..(DestLen - 1) |-> (seed + 7 * i) % 256],
        to |-> [i \in 0..(DestLen - 1) |-> Indet]] :
         t \in {"NONE", "SSE4"}, sz \in StreamSizes, seed \in 0..MaxSeed}

StreamCopy ==
  /\ call.op = "StreamCacheLine"
  /\ ret = <<>>
  /\ ret' = <<[to |-> StreamCacheLine(call.target, call.size, call.from,
                                      call.to),
               touched |-> Touched(call.target, call.size)]>>
  /\ UNCHANGED <<call, heap, mem, owners, lastCall, status>>

NextStream == StreamCopy

SpecStream == InitStream /\ [][NextStream]_vars

\* C5: StreamCacheLine copies exactly one cache line: afterwards the 64
\* bytes at to equal the 64 bytes at from, all 64 source bytes were read,
\* and no byte outside to[0, 64) is written.
C5_CopiesCacheLine ==
  ret # <<>> /\ call.op = "StreamCacheLine"
    => /\ \A i \in 0..(kCacheLineSize - 1) : ret[1].to[i] = call.from[i]
       /\ ret[1].touched = 0..(kCacheLineSize - 1)
       /\ \A i \in kCacheLineSize..(DestLen - 1) : ret[1].to[i] = call.to[i]

(***************************************************************************)
(* scalar<T>: saturating addition and subtraction                          *)
(***************************************************************************)

\* How far around the type's limits and around zero the operands are taken.
Near == 3

SIMD_MIN(a, b) == IF a < b THEN a ELSE b

SIMD_MAX(a, b) == IF a < b THEN b ELSE a

LaneBits(ty) ==
  CASE ty \in {"u8", "i8"} -> 8
    [] ty \in {"u16", "i16"} -> 16

IsSignedTy(ty) == ty \in {"i8", "i16"}

LimitsMin(ty) == IF IsSignedTy(ty) THEN -(2 ^ (LaneBits(ty) - 1)) ELSE 0

LimitsMax(ty) ==
  IF IsSignedTy(ty) THEN 2 ^ (LaneBits(ty) - 1) - 1 ELSE 2 ^ LaneBits(ty) - 1

\* scalar<T>(t): the conversion of an int to the lane type T.
ScalarOf(ty, v) ==
  IF IsSignedTy(ty)
    THEN ((v + 2 ^ (LaneBits(ty) - 1)) % (2 ^ LaneBits(ty)))
           - 2 ^ (LaneBits(ty) - 1)
    ELSE v % (2 ^ LaneBits(ty))

\* operator+ and operator-: the sum or difference of the promoted lanes,
\* converted back to T.
WrapAdd(ty, a, b) == ScalarOf(ty, a + b)

WrapSub(ty, a, b) == ScalarOf(ty, a - b)

AddSatClampsMaxOnly(ty, a, b) == ScalarOf(ty, SIMD_MIN(a + b, LimitsMax(ty)))

\* The four overloads of add_sat have the bodies
\*   SIMD_MIN(SIMD_MAX(lo, a.raw + b.raw), hi)
\* with lo, hi = 0, 255 / 0, 65535 / -128, 127 / -32768, 32767.
add_sat(ty, a, b) ==
  ScalarOf(ty, SIMD_MIN(SIMD_MAX(LimitsMin(ty), a + b), LimitsMax(ty)))

sub_sat(ty, a, b) ==
  ScalarOf(ty, SIMD_MIN(SIMD_MAX(LimitsMin(ty), a - b), LimitsMax(ty)))

\* a >> n on an int: the arithmetic shift, which rounds down.
Sar(a, n) == a \div (2 ^ n)

MulhrsTruncates(a, b) ==
  ScalarOf("i16", SIMD_MIN(SIMD_MAX(-32768, Sar(a * b, 15)), 32767))

\* ext::mulhrs: rounded = ((a.raw * b.raw) + (1 << 14)) >> 15 in int,
\* clamped = SIMD_MIN(SIMD_MAX(-32768, rounded), 32767).
mulhrs(a, b) ==
  ScalarOf("i16",
           SIMD_MIN(SIMD_MAX(-32768, Sar(a * b + 2 ^ 14, 15)), 32767))

SatTypes == {"u8", "u16", "i8", "i16"}

\* Operands: everything within Near of the limits and of zero, and the
\* values 10, 100 and 250 where the type holds them.
SatSamples(ty) ==
  {v \in (LimitsMin(ty)..(LimitsMin(ty) + Near))
           \cup ((LimitsMax(ty) - Near)..LimitsMax(ty))
           \cup ((0 - Near)..Near) \cup {10, 100, 250} :
     LimitsMin(ty) <= v /\ v <= LimitsMax(ty)}

\* The left operand of an 8-bit lane ranges over the whole type.
SatLeft(ty) ==
  IF LaneBits(ty) = 8 THEN LimitsMin(ty)..LimitsMax(ty) ELSE SatSamples(ty)

\* Operands of mulhrs: those of the saturating operations, and values whose
\* products fall in the middle of the range and on both sides of a half.
MulSamples ==
  SatSamples("i16")
    \cup {-16384, -12345, -182, -181, -128, 128, 181, 182, 12345, 16384}

InitSat ==
  /\ AllocIdle
  /\ ret = <<>>
  /\ call \in
      UNION {{[op |-> o, ty |-> t, a |-> x, b |-> y] :
                o \in {"add_sat", "sub_sat", "operator+", "operator-"},
                x \in SatLeft(t), y \in SatSamples(t)} : t \in SatTypes}
        \cup {[op |-> "mulhrs", ty |-> "i16", a |-> x, b |-> y] :
                x \in MulSamples, y \in MulSamples}

\* A call returns its result and leaves everything else alone.
Return(result) ==
  /\ ret = <<>>
  /\ ret' = <<result>>
  /\ UNCHANGED <<call, heap, mem, owners, lastCall, status>>

AddSat ==
  /\ call.op = "add_sat"
  /\ Return(add_sat(call.ty, call.a, call.b))

SubSat ==
  /\ call.op = "sub_sat"
  /\ Return(sub_sat(call.ty, call.a, call.b))

Plus ==
  /\ call.op = "operator+"
  /\ Return(WrapAdd(call.ty, call.a, call.b))

Minus ==
  /\ call.op = "operator-"
  /\ Return(WrapSub(call.ty, call.a, call.b))

Mulhrs ==
  /\ call.op = "mulhrs"
  /\ Return(mulhrs(call.a, call.b))

NextSat == AddSat \/ SubSat \/ Plus \/ Minus \/ Mulhrs

SpecSat == InitSat /\ [][NextSat]_vars

\* The mathematical sum or difference clamped to the range of the type.
Clamped(ty, v) ==
  IF v < LimitsMin(ty) THEN LimitsMin(ty)
  ELSE IF v > LimitsMax(ty) THEN LimitsMax(ty) ELSE v

\* C8: on 8- and 16-bit lanes add_sat and sub_sat return the mathematical
\* sum or difference clamped to the representable range of the lane type,
\* never the wrapped result of plain + and -.
C8_Saturates ==
  ret # <<>> =>
    /\ call.op = "add_sat" => ret[1] = Clamped(call.ty, call.a + call.b)
    /\ call.op = "sub_sat" => ret[1] = Clamped(call.ty, call.a - call.b)

\* C15: mulhrs(a, b) is ((a*b + 2^14) >> 15) clamped into [-32768, 32767];
\* where the value is not clamped it equals (((a*b) >> 14) + 1) >> 1; and
\* clamping changes the value only for a = b = -32768, where it gives 32767.
C15_Mulhrs ==
  ret # <<>> /\ call.op = "mulhrs" =>
    LET rounded == Sar(call.a * call.b + 2 ^ 14, 15)
        inRange == -32768 <= rounded /\ rounded <= 32767
    IN /\ ret[1] = Clamped("i16", rounded)
       /\ inRange => ret[1] = Sar(Sar(call.a * call.b, 14) + 1, 1)
       /\ ~inRange <=> call.a = -32768 /\ call.b = -32768
       /\ ~inRange => ret[1] = 32767

\* mulhrs rounded a product up to the next integer, and clamped the one
\* pair that leaves the range.
C15_Witness ==
  /\ ret # <<>> /\ call.op = "mulhrs"
  /\ \/ call.a = 128 /\ call.b = 128 /\ ret[1] = 1
        /\ Sar(call.a * call.b, 15) = 0
     \/ call.a = -32768 /\ call.b = -32768 /\ ret[1] = 32767

\* add_sat(250, 10) on uint8 lanes is 255 where + gives 4, and a signed
\* subtraction below the minimum stays at the minimum.
C8_Witness ==
  /\ ret # <<>>
  /\ \/ /\ call.op = "add_sat" /\ call.ty = "u8"
        /\ call.a = 250 /\ call.b = 10 /\ ret[1] = 255
        /\ WrapAdd(call.ty, call.a, call.b) = 4
     \/ /\ call.op = "sub_sat" /\ call.ty = "i16"
        /\ call.a = LimitsMin("i16") /\ call.b = 1
        /\ ret[1] = LimitsMin("i16")

(***************************************************************************)
(* scalar<T>: zip_lo and zip_hi                                            *)
(***************************************************************************)

\* The lanes are words of 1, 2 or 4 bytes; the arithmetic is done in
\* uint32_t or uint64_t, to which a signed lane converts by sign extension.
ZipTypes == {"u8", "u16", "u32", "i8", "i16", "i32"}

ZipBytes(ty) ==
  CASE ty \in {"u8", "i8"} -> 1
    [] ty \in {"u16", "i16"} -> 2
    [] ty \in {"u32", "i32"} -> 4

zip_lo_u8(a, b) ==
  WTrunc(WAdd(WShl(WZExt(b, 4), 8), WZExt(a, 4)), 2)

zip_lo_u16(a, b) == WAdd(WShl(WZExt(b, 4), 16), WZExt(a, 4))

zip_lo_u32(a, b) == WAdd(WShl(WZExt(b, 8), 32), WZExt(a, 8))

zip_lo_i8(a, b) ==
  WTrunc(WAdd(WShl(WSExt(b, 4), 8), WSExt(a, 4)), 2)

zip_lo_i16(a, b) == WAdd(WShl(WSExt(b, 4), 16), WSExt(a, 4))

zip_lo_i32(a, b) == WAdd(WShl(WSExt(b, 8), 32), WSExt(a, 8))

zip_lo(ty, a, b) ==
  CASE ty = "u8" -> zip_lo_u8(a, b)
    [] ty = "u16" -> zip_lo_u16(a, b)
    [] ty = "u32" -> zip_lo_u32(a, b)
    [] ty = "i8" -> zip_lo_i8(a, b)
    [] ty = "i16" -> zip_lo_i16(a, b)
    [] ty = "i32" -> zip_lo_i32(a, b)

zip_hi(ty, a, b) == zip_lo(ty, a, b)

\* Lane values: those within Near of zero, the signed limits, and two
\* patterns with distinct bytes.
ZipSamples(k) ==
  {WordOf(n, k) : n \in (0 - Near)..Near}
    \cup {WBit(8 * k - 1, k), WLowMask(8 * k - 1, k),
          [i \in 1..k |-> 16 * i + 2], [i \in 1..k |-> 255 - 16 * i]}

InitZip ==
  /\ AllocIdle
  /\ ret = <<>>
  /\ call \in
      UNION {{[op |-> o, ty |-> t, a |-> x, b |-> y] :
                o \in {"zip_lo", "zip_hi"},
                x \in ZipSamples(ZipBytes(t)), y \in ZipSamples(ZipBytes(t))} :
              t \in ZipTypes}

ZipLo ==
  /\ call.op = "zip_lo"
  /\ Return(zip_lo(call.ty, call.a, call.b))

ZipHi ==
  /\ call.op = "zip_hi"
  /\ Return(zip_hi(call.ty, call.a, call.b))

NextZip == ZipLo \/ ZipHi

SpecZip == InitZip /\ [][NextZip]_vars

\* C9: zip_lo and zip_hi form one lane of twice the width whose lower half
\* holds the bits of a and whose upper half holds the bits of b.
C9_ZipConcatenates ==
  ret # <<>> /\ call.op \in {"zip_lo", "zip_hi"}
    => ret[1] = call.a \o call.b

(***************************************************************************)
(* scalar<float>, scalar<double>: round_pos_inf and round_neg_inf          *)
(***************************************************************************)

\* How many exponents below 2^0 and above 2^kMantissaBits are taken.
ExpMargin == 2

\* The template arguments <Float, Bits, kMantissaBits, kExponentBits>.
FloatFormat == [bytes |-> 4, kMantissaBits |-> 23, kExponentBits |-> 8]

DoubleFormat == [bytes |-> 8, kMantissaBits |-> 52, kExponentBits |-> 11]

kExponentMask(fmt) == WLowMask(fmt.kExponentBits, fmt.bytes)

kMantissaMask(fmt) == WLowMask(fmt.kMantissaBits, fmt.bytes)

\* kExponentMask / 2, which fits an int.
kBias(fmt) == SmallVal(WShr(kExponentMask(fmt), 1))

SignBit(fmt) == WBit(8 * fmt.bytes - 1, fmt.bytes)

\* The exponent and mantissa fields of a bit pattern.
ExpField(fmt, bits) ==
  SmallVal(WAnd(WShr(bits, fmt.kMantissaBits), kExponentMask(fmt)))

MantField(fmt, bits) == WAnd(bits, kMantissaMask(fmt))

\* The magnitude |x| as a word: IEEE orders magnitudes as their patterns.
Magnitude(fmt, bits) == WAnd(bits, WNot(SignBit(fmt)))

IsNaN(fmt, bits) ==
  /\ ExpField(fmt, bits) = SmallVal(kExponentMask(fmt))
  /\ ~WIsZero(MantField(fmt, bits))

IsZeroF(fmt, bits) == WIsZero(Magnitude(fmt, bits))

\* The comparisons x < y, x == y, x <= y of the float type: false when an
\* operand is NaN, and -0 == +0.
FLt(fmt, x, y) ==
  /\ ~IsNaN(fmt, x) /\ ~IsNaN(fmt, y)
  /\ ~(IsZeroF(fmt, x) /\ IsZeroF(fmt, y))
  /\ IF WTop(x) # WTop(y) THEN WTop(x) = 1
     ELSE IF WTop(x) = 0 THEN WLt(x, y)
     ELSE WLt(y, x)

FEq(fmt, x, y) ==
  /\ ~IsNaN(fmt, x) /\ ~IsNaN(fmt, y)
  /\ x = y \/ (IsZeroF(fmt, x) /\ IsZeroF(fmt, y))

FLe(fmt, x, y) == FLt(fmt, x, y) \/ FEq(fmt, x, y)

\* -x.
FNeg(fmt, x) == WXor(x, SignBit(fmt))

\* The patterns of 0.0, 1.0 and -1.0.
FZero(fmt) == WZero(fmt.bytes)

FOne(fmt) == WShl(WordOf(kBias(fmt), fmt.bytes), fmt.kMantissaBits)

FMinusOne(fmt) == WOr(FOne(fmt), SignBit(fmt))

\* The tail shared by Ceiling and Floor once the value is known to have
\* fractional bits: step away from zero when bump holds, then clear them.
ClearFraction(fmt, bits, exponent, bump) ==
  WAnd(IF bump
         THEN WAdd(bits, WShr(WAdd(kMantissaMask(fmt), WordOf(1, fmt.bytes)),
                              exponent))
         ELSE bits,
       WNot(WShr(kMantissaMask(fmt), exponent)))

FloorKeepsMagnitude(fmt, bits) ==
  LET exponent == ExpField(fmt, bits) - kBias(fmt)
  IN IF exponent >= fmt.kMantissaBits THEN bits
     ELSE IF exponent < 0
       THEN (IF FLt(fmt, bits, FZero(fmt)) THEN FMinusOne(fmt)
             ELSE FZero(fmt))
     ELSE IF WIsZero(WAnd(bits, WShr(kMantissaMask(fmt), exponent)))
       THEN bits
     ELSE ClearFraction(fmt, bits, exponent, FALSE)

Ceiling(fmt, bits) ==
  LET positive == FLt(fmt, FZero(fmt), bits)
      exponent == ExpField(fmt, bits) - kBias(fmt)
  IN IF exponent >= fmt.kMantissaBits THEN bits
     ELSE IF exponent < 0
       THEN (IF positive THEN FOne(fmt) ELSE FZero(fmt))
     ELSE IF WIsZero(WAnd(bits, WShr(kMantissaMask(fmt), exponent)))
       THEN bits
     ELSE ClearFraction(fmt, bits, exponent, positive)

Floor(fmt, bits) ==
  LET negative == FLt(fmt, bits, FZero(fmt))
      exponent == ExpField(fmt, bits) - kBias(fmt)
  IN IF exponent >= fmt.kMantissaBits THEN bits
     ELSE IF exponent < 0
       THEN (IF negative THEN FMinusOne(fmt) ELSE FZero(fmt))
     ELSE IF WIsZero(WAnd(bits, WShr(kMantissaMask(fmt), exponent)))
       THEN bits
     ELSE ClearFraction(fmt, bits, exponent, negative)

round_pos_inf(fmt, v) == Ceiling(fmt, v)

round_neg_inf(fmt, v) == Floor(fmt, v)

\* Mantissas: zero, all ones, every single bit, and the top bit with the
\* lowest.
MantSamples(fmt) ==
  {WZero(fmt.bytes), kMantissaMask(fmt),
   WOr(WBit(fmt.kMantissaBits - 1, fmt.bytes), WBit(0, fmt.bytes))}
    \cup {WBit(j, fmt.bytes) : j \in 0..(fmt.kMantissaBits - 1)}

\* Exponent fields: zero and denormal, infinity and NaN, and every exponent
\* from 2^-ExpMargin to 2^(kMantissaBits + ExpMargin).
ExpSamples(fmt) ==
  {0, 1, SmallVal(kExponentMask(fmt)) - 1, SmallVal(kExponentMask(fmt))}
    \cup ((kBias(fmt) - ExpMargin)
            ..(kBias(fmt) + fmt.kMantissaBits + ExpMargin))

FloatBits(fmt, sign, e, m) ==
  WOr(WOr(IF sign = 1 THEN SignBit(fmt) ELSE WZero(fmt.bytes),
          WShl(WordOf(e, fmt.bytes), fmt.kMantissaBits)),
      m)

FloatSamples(fmt) ==
  {FloatBits(fmt, sg, e, m) :
     sg \in {0, 1}, e \in ExpSamples(fmt), m \in MantSamples(fmt)}

InitRound ==
  /\ AllocIdle
  /\ ret = <<>>
  /\ call \in
      UNION {{[op |-> o, fmt |-> f, v |-> x] :
                o \in {"round_neg_inf", "round_pos_inf"},
                x \in FloatSamples(f)} : f \in {FloatFormat, DoubleFormat}}

RoundNegInf ==
  /\ call.op = "round_neg_inf"
  /\ Return(round_neg_inf(call.fmt, call.v))

RoundPosInf ==
  /\ call.op = "round_pos_inf"
  /\ Return(round_pos_inf(call.fmt, call.v))

NextRound == RoundNegInf \/ RoundPosInf

SpecRound == InitRound /\ [][NextRound]_vars

\* x is a finite whole number: zero, or no mantissa bit below 2^0 is set.
IsIntegral(fmt, x) ==
  LET exponent == ExpField(fmt, x) - kBias(fmt)
  IN /\ ExpField(fmt, x) # SmallVal(kExponentMask(fmt))
     /\ \/ IsZeroF(fmt, x)
        \/ exponent >= fmt.kMantissaBits
        \/ /\ exponent >= 0
           /\ WIsZero(WAnd(x, WLowMask(fmt.kMantissaBits - exponent,
                                       fmt.bytes)))

\* What the claim says of one call on x: floor(x) <= x <= ceil(x), both
\* equal x when x is integral, and ceil(-x) == -floor(x).
RoundingLaws ==
  /\ call.op = "round_neg_inf" =>
       /\ FLe(call.fmt, ret[1], call.v)
       /\ IsIntegral(call.fmt, call.v) => FEq(call.fmt, ret[1], call.v)
       /\ FEq(call.fmt, round_pos_inf(call.fmt, FNeg(call.fmt, call.v)),
              FNeg(call.fmt, ret[1]))
  /\ call.op = "round_pos_inf" =>
       /\ FLe(call.fmt, call.v, ret[1])
       /\ IsIntegral(call.fmt, call.v) => FEq(call.fmt, ret[1], call.v)
       /\ FEq(call.fmt, ret[1],
              FNeg(call.fmt, round_neg_inf(call.fmt,
                                           FNeg(call.fmt, call.v))))

IsRoundCall == ret # <<>> /\ call.op \in {"round_neg_inf", "round_pos_inf"}

\* C10 as stated: for every float and double value x, floor(x) <= x <=
\* ceil(x), floor(x) == x == ceil(x) when x is integral, and
\* ceil(-x) == -floor(x).
C10_RoundingAllValues == IsRoundCall => RoundingLaws

\* C10, amended: the same for every x that is not a NaN.
C10_RoundingNonNaN ==
  IsRoundCall /\ ~IsNaN(call.fmt, call.v) => RoundingLaws

\* floor(-1.5) = -2.0 and ceil(-1.5) = -1.0, in float and in double.
MinusOneAndHalf(fmt) ==
  FloatBits(fmt, 1, kBias(fmt), WBit(fmt.kMantissaBits - 1, fmt.bytes))

MinusTwo(fmt) == FloatBits(fmt, 1, kBias(fmt) + 1, WZero(fmt.bytes))

C10_Witness ==
  /\ IsRoundCall
  /\ call.v = MinusOneAndHalf(call.fmt)
  /\ \/ call.op = "round_neg_inf" /\ ret[1] = MinusTwo(call.fmt)
     \/ call.op = "round_pos_inf" /\ ret[1] = FMinusOne(call.fmt)

(***************************************************************************)
(* scalar<T>: comparisons and select                                       *)
(***************************************************************************)

\* The element types T; a lane is the sizeof(T) bytes of its raw value.
LaneTypes ==
  {"u8", "i8", "u16", "i16", "u32", "i32", "u64", "i64", "f32", "f64"}

SizeOfT(ty) ==
  CASE ty \in {"u8", "i8"} -> 1
    [] ty \in {"u16", "i16"} -> 2
    [] ty \in {"u32", "i32", "f32"} -> 4
    [] ty \in {"u64", "i64", "f64"} -> 8

IsFloat(ty) == ty \in {"f32", "f64"}

IsSigned(ty) == ty \in {"i8", "i16", "i32", "i64", "f32", "f64"}

FormatOf(ty) == IF ty = "f32" THEN FloatFormat ELSE DoubleFormat

\* Integer promotion of a raw value: types narrower than int become int.
Promote(ty, x) ==
  IF SizeOfT(ty) >= 4 THEN x
  ELSE IF IsSigned(ty) THEN WSExt(x, 4) ELSE WZExt(x, 4)

\* a.raw == b.raw and a.raw < b.raw in the arithmetic of T.
RawEq(ty, a, b) == IF IsFloat(ty) THEN FEq(FormatOf(ty), a, b) ELSE a = b

RawLt(ty, a, b) ==
  IF IsFloat(ty) THEN FLt(FormatOf(ty), a, b)
  ELSE IF IsSigned(ty)
    THEN WLt(WXor(a, WBit(8 * Len(a) - 1, Len(a))),
             WXor(b, WBit(8 * Len(b) - 1, Len(b))))
  ELSE WLt(a, b)

\* The relation that the comparison operator op evaluates on the raw values.
Relation(op, ty, a, b) ==
  CASE op = "==" -> RawEq(ty, a, b)
    [] op = "<" -> RawLt(ty, a, b)
    [] op = ">" -> RawLt(ty, b, a)
    [] op = "<=" -> RawLt(ty, a, b) \/ RawEq(ty, a, b)
    [] op = ">=" -> RawLt(ty, b, a) \/ RawEq(ty, a, b)

\* SetBytes(value, &ret): every byte of the object becomes value.
SetBytes(value, k) == Tup([i \in 1..k |-> value])

ComparisonResultIsBool(ty, result) ==
  WordOf(IF result THEN 1 ELSE 0, SizeOfT(ty))

ComparisonResult(ty, result) ==
  SetBytes(IF result THEN 255 ELSE 0, SizeOfT(ty))

\* operator&, andnot and operator| on the raw values: on the promoted
\* integers and narrowed back, or through BitwiseOp on the bits of a float.
BitAnd(ty, a, b) ==
  WTrunc(WAnd(Promote(ty, a), Promote(ty, b)), SizeOfT(ty))

andnot(ty, a, b) ==
  WTrunc(WAnd(WNot(Promote(ty, a)), Promote(ty, b)), SizeOfT(ty))

BitOr(ty, a, b) ==
  WTrunc(WOr(Promote(ty, a), Promote(ty, b)), SizeOfT(ty))

select(ty, a, b, mask) == BitOr(ty, BitAnd(ty, mask, b), andnot(ty, mask, a))

\* Float operands: zeros, denormals, 1, 1.5, infinities and NaNs of both
\* signs.
FloatFew(fmt) ==
  {FloatBits(fmt, sg, e, m) :
     sg \in {0, 1},
     e \in {0, kBias(fmt), SmallVal(kExponentMask(fmt))},
     m \in {WZero(fmt.bytes), WBit(fmt.kMantissaBits - 1, fmt.bytes)}}

LaneSamples(ty) ==
  IF IsFloat(ty) THEN FloatFew(FormatOf(ty)) ELSE ZipSamples(SizeOfT(ty))

CompareOps == {"==", "<", ">", "<=", ">="}

InitMask ==
  /\ AllocIdle
  /\ ret = <<>>
  /\ call \in
      UNION {{[op |-> o, ty |-> t, a |-> x, b |-> y] :
                o \in CompareOps,
                x \in LaneSamples(t), y \in LaneSamples(t)} : t \in LaneTypes}

\* m = (a op b)
Compare ==
  /\ call.op \in CompareOps
  /\ Return(ComparisonResult(call.ty,
                             Relation(call.op, call.ty, call.a, call.b)))

\* select(a, b, m) with the mask the comparison produced.
Select ==
  /\ Len(ret) = 1
  /\ ret' = ret \o <<select(call.ty, call.a, call.b, ret[1])>>
  /\ UNCHANGED <<call, heap, mem, owners, lastCall, status>>

NextMask == Compare \/ Select

SpecMask == InitMask /\ [][NextMask]_vars

\* C11: a comparison yields all-ones over the whole element when the
\* relation holds and all-zero otherwise, and select(a, b, m) with such a
\* mask is exactly b for all-ones and exactly a for all-zero.
C11_MasksAndSelect ==
  call.op \in CompareOps =>
    /\ Len(ret) >= 1 =>
         ret[1] = IF Relation(call.op, call.ty, call.a, call.b)
                    THEN WOnes(SizeOfT(call.ty)) ELSE WZero(SizeOfT(call.ty))
    /\ Len(ret) = 2 =>
         /\ ret[1] = WOnes(SizeOfT(call.ty)) => ret[2] = call.b
         /\ ret[1] = WZero(SizeOfT(call.ty)) => ret[2] = call.a
         /\ ret[2] \in {call.a, call.b}

\* A true comparison selected b and a false one selected a, with a # b.
C11_Witness ==
  /\ call.op = "<" /\ Len(ret) = 2 /\ call.a # call.b
  /\ \/ call.ty = "i16" /\ ret[1] = WOnes(2) /\ ret[2] = call.b
     \/ call.ty = "f64" /\ ret[1] = WZero(8) /\ ret[2] = call.a

(***************************************************************************)
(* scalar<T>: operator+, operator- and operator* on integer lanes          *)
(***************************************************************************)

IntTypes == {ty \in LaneTypes : ~IsFloat(ty)}

\* static_cast<int64_t>(a.raw), int64_t(a.raw), uint64_t(a.raw): the value
\* of the lane in 64 bits.
Widen64(ty, x) == IF IsSigned(ty) THEN WSExt(x, 8) ELSE WZExt(x, 8)

\* x - y modulo 256^k.
WSub(x, y) == WAdd(WAdd(x, WNot(y)), WordOf(1, Len(x)))

NotTZeroIsByteMask(ty) == WZExt(WOnes(1), 8)

\* ~T(0) as the uint64_t operand of &: T(0) is promoted, complemented in the
\* promoted type, and converted to 64 bits by value.
NotTZero(ty) ==
  IF SizeOfT(ty) < 4 \/ IsSigned(ty)
    THEN WSExt(WNot(Promote(ty, WZero(SizeOfT(ty)))), 8)
    ELSE WZExt(WNot(Promote(ty, WZero(SizeOfT(ty)))), 8)

\* scalar<T>((a64 + b64) & ~T(0)) and scalar<T>((a64 - b64) & ~T(0)).
operator_plus(ty, a, b) ==
  WTrunc(WAnd(WAdd(Widen64(ty, a), Widen64(ty, b)), NotTZero(ty)),
         SizeOfT(ty))

operator_minus(ty, a, b) ==
  WTrunc(WAnd(WSub(Widen64(ty, a), Widen64(ty, b)), NotTZero(ty)),
         SizeOfT(ty))

\* The exact product of the two lane values, in 128 bits.
ExactProduct(ty, a, b) ==
  WMul(IF IsSigned(ty) THEN WSExt(a, 16) ELSE WZExt(a, 16),
       IF IsSigned(ty) THEN WSExt(b, 16) ELSE WZExt(b, 16))

\* int64_t(a.raw) * b.raw does not fit int64_t: signed overflow, which is
\* undefined behaviour. The unsigned product wraps and is defined.
SignedOverflow(ty, a, b) ==
  /\ IsSigned(ty)
  /\ ExactProduct(ty, a, b) # WSExt(WTrunc(ExactProduct(ty, a, b), 8), 16)

\* static_cast<T>(int64_t(a.raw) * b.raw) or the same with uint64_t, when
\* the multiplication yields the low 64 bits of the product.
operator_times(ty, a, b) ==
  WTrunc(WMul(Widen64(ty, a), Widen64(ty, b)), SizeOfT(ty))

InitArith ==
  /\ AllocIdle
  /\ ret = <<>>
  /\ call \in
      UNION {{[op |-> o, ty |-> t, a |-> x, b |-> y] :
                o \in {"+", "-", "*"},
                x \in ZipSamples(SizeOfT(t)), y \in ZipSamples(SizeOfT(t))} :
              t \in IntTypes}

Add ==
  /\ call.op = "+"
  /\ Return(operator_plus(call.ty, call.a, call.b))

Sub ==
  /\ call.op = "-"
  /\ Return(operator_minus(call.ty, call.a, call.b))

\* On signed overflow a build either wraps (the result of imul) or traps
\* (-ftrapv, a sanitizer).
Mul ==
  /\ call.op = "*"
  /\ ret = <<>>
  /\ status = "running"
  /\ \E trap \in {FALSE, SignedOverflow(call.ty, call.a, call.b)} :
       /\ ret' = IF trap THEN <<>>
                 ELSE <<operator_times(call.ty, call.a, call.b)>>
       /\ status' = IF trap THEN "aborted" ELSE status
  /\ UNCHANGED <<call, heap, mem, owners, lastCall>>

NextArith == Add \/ Sub \/ Mul

SpecArith == InitArith /\ [][NextArith]_vars

\* C12: on every integer lane type of 8, 16, 32 or 64 bits, a + b has the
\* bit pattern of (a + b) mod 2^w and a - b that of (a - b) mod 2^w.
C12_AddSubWrap ==
  ret # <<>> =>
    /\ call.op = "+" => ret[1] = WAdd(call.a, call.b)
    /\ call.op = "-" => ret[1] = WSub(call.a, call.b)

\* Sums and differences that pass 2^w or 0 wrapped, on a lane where ~T(0)
\* is not all ones in 64 bits and on a signed 8-bit lane.
C12_Witness ==
  /\ ret # <<>>
  /\ \/ /\ call.op = "+" /\ call.ty = "u32"
        /\ call.a = WOnes(4) /\ call.b = WordOf(2, 4)
        /\ ret[1] = WordOf(1, 4)
     \/ /\ call.op = "-" /\ call.ty = "i8"
        /\ call.a = WBit(7, 1) /\ call.b = WordOf(1, 1)
        /\ ret[1] = WLowMask(7, 1)

\* C13: on every integer lane type the 64-bit product never overflows
\* before narrowing, and a * b is the low w bits of the exact product.
C13_MulExact ==
  call.op = "*" /\ (ret # <<>> \/ status = "aborted") =>
    /\ ~SignedOverflow(call.ty, call.a, call.b)
    /\ status = "running"
    /\ ret = <<WTrunc(ExactProduct(call.ty, call.a, call.b),
                      SizeOfT(call.ty))>>

(***************************************************************************)
(* scalar<T>: cast_to                                                      *)
(***************************************************************************)

\* The local "T to;" and the bytes that follow it in the frame, before
\* anything is stored: to is bytes 1..sizeof(T).
StackFrame == Tup([i \in 1..8 |-> Indet])

\* CopyBytes<n>(from, to): the first n bytes at from are stored at to.
CopyBytes(n, from, frame) ==
  Tup([i \in 1..Len(frame) |-> IF i <= n THEN from[i] ELSE frame[i]])

\* cast_to(Scalar<T>, scalar<FromT> v), with n the bytes the copy stores:
\* the value returned and the frame it leaves.
cast_to(ty, n, v) ==
  [to |-> WTrunc(CopyBytes(n, v, StackFrame), SizeOfT(ty)),
   frame |-> CopyBytes(n, v, StackFrame)]

InitCast ==
  /\ AllocIdle
  /\ ret = <<>>
  /\ call \in
      UNION {{[op |-> "cast_to", ty |-> tf[1], from |-> tf[2], v |-> x] :
                x \in LaneSamples(tf[2])} :
              tf \in {p \in LaneTypes \X LaneTypes :
                        SizeOfT(p[1]) <= SizeOfT(p[2])}}

\* The copy is CopyBytes<sizeof(FromT)> into an object of sizeof(T) bytes.
\* When FromT is wider that is a store past the end of the object, which is
\* undefined: a build stores all sizeof(FromT) bytes, or only those of the
\* object.
Cast ==
  /\ call.op = "cast_to"
  /\ \E n \in {SizeOfT(call.from)}
               \cup {k \in {SizeOfT(call.ty)} : k < SizeOfT(call.from)} :
       Return(cast_to(call.ty, n, call.v))

NextCast == Cast

SpecCast == InitCast /\ [][NextCast]_vars

\* C14: cast_to returns the low sizeof(T) bytes of v, writes exactly the
\* sizeof(T) bytes of the result object and no byte outside it, also when
\* T is narrower than FromT.
C14_CastWritesResultOnly ==
  ret # <<>> /\ call.op = "cast_to" =>
    /\ ret[1].to = WTrunc(call.v, SizeOfT(call.ty))
    /\ \A i \in 1..Len(ret[1].frame) :
         ret[1].frame[i] # Indet <=> i <= SizeOfT(call.ty)

(***************************************************************************)
(* Properties of the allocator                                             *)
(***************************************************************************)

\* The request was for 0 < n < 2^63 bytes.
SizeInRange(bytes) == ~WIsZero(bytes) /\ WLt(bytes, WBit(63, SizeBytes))

\* C1: for every request of 0 < n < 2^63 bytes on which the underlying
\* malloc succeeds, CacheAligned::Allocate(n) returns a non-null address
\* that is a multiple of 64.
C1_AllocateAligned ==
  (/\ lastCall.op = "Allocate"
   /\ SizeInRange(lastCall.bytes)
   /\ lastCall.mret > Null)
  => /\ status = "running"
     /\ lastCall.ret # Null
     /\ lastCall.ret > 0
     /\ lastCall.ret % kCacheLineSize = 0

\* An Allocate of MaxBytes bytes whose malloc block was not 64-aligned.
C1_Witness ==
  /\ lastCall.op = "Allocate"
  /\ lastCall.bytes = SizeOf(MaxBytes)
  /\ lastCall.mret > Null
  /\ lastCall.mret % kCacheLineSize = kPointerSize
  /\ lastCall.ret = lastCall.mret + kCacheLineSize - kPointerSize

LiveBases == {blk.base : blk \in heap}

OwnedBases == {o.base : o \in {x \in owners : x.live /\ x.ptr # Null}}

\* C2: when every pointer is freed once and callers write only inside
\* their buffers, each Free hands the underlying free exactly the address
\* the underlying malloc returned for that buffer and the free succeeds;
\* the live blocks are exactly those of the pointers still held, so none
\* remains once the last pointer is freed.
C2_FreeReleasesOriginal ==
  /\ (lastCall.op \in {"Free", "Release"} /\ lastCall.ret # Null)
       => /\ status = "running"
          /\ lastCall.hdr = lastCall.base
          /\ lastCall.farg = lastCall.base
          /\ lastCall.base \notin LiveBases
  /\ status = "running" => LiveBases = OwnedBases
  /\ Cardinality(heap) = Cardinality(LiveBases)

\* The last pointer was freed after two buffers had been live together.
C2_Witness ==
  /\ lastCall.op = "Free"
  /\ lastCall.farg = lastCall.base
  /\ lastCall.farg > Null
  /\ heap = {}
  /\ owners = {}

\* C3: an object obtained from pik::Allocate<T> was constructed exactly
\* once, on memory of a live block; releasing its handle runs the
\* destructor once and then CacheAligned::Free once, on the same pointer.
C3_ObjectLifecycle ==
  /\ \A o \in owners :
       (o.kind = "obj" /\ o.ptr # Null)
         => /\ o.ev = <<"ctor">>
            /\ InLive(o.ptr, o.bytes, heap)
            /\ \A x \in o.ptr..(o.ptr + o.bytes - 1) :
                 mem[x] \in {CtorByte} \cup UserBytes
  /\ (lastCall.op = "Release" /\ lastCall.kind = "obj" /\ lastCall.ret # Null)
       => /\ lastCall.ev = <<"ctor", "dtor", "free">>
          /\ lastCall.farg = lastCall.base
          /\ status = "running"

\* A constructed object's handle was released.
C3_Witness ==
  /\ lastCall.op = "Release"
  /\ lastCall.kind = "obj"
  /\ lastCall.ret # Null
  /\ lastCall.ev = <<"ctor", "dtor", "free">>
  /\ lastCall.farg = lastCall.base

\* C4: when the underlying malloc fails, the call returns null (a null
\* handle) and does nothing else: no header is written, malloc is not
\* retried, and no constructor runs on the null address.
C4_NullOnFailure ==
  lastCall.mret = Null
    => /\ lastCall.ret = Null
       /\ lastCall.wrote = {}
       /\ lastCall.mcalls = 1
       /\ lastCall.ev = <<>>
       /\ ~lastCall.nullWrite
       /\ status = "running"

\* entries * sizeof(T) as an unbounded product (in twice the width).
TrueArrayBytes(entries, esize) ==
  WMul(WZExt(entries, 2 * SizeBytes), WordOf(esize, 2 * SizeBytes))

\* The number of bytes the caller of the last call asked for is 2^63 or more.
OverLarge ==
  \/ /\ lastCall.op \in {"Allocate", "AllocateObject"}
     /\ ~WLt(lastCall.bytes, WBit(63, SizeBytes))
  \/ /\ lastCall.op = "AllocateArray"
     /\ ~WLt(TrueArrayBytes(lastCall.entries, lastCall.esize),
             WBit(63, 2 * SizeBytes))

\* C6: a request of 2^63 bytes or more, direct or as entries * sizeof(T),
\* aborts on the assertion.
C6_OverLargeAborts == OverLarge => status = "aborted"

\* C7 as claimed: a second Free of an already-freed pointer stops at an
\* assertion and hands nothing to the underlying free.
C7_DoubleFreeAsserts ==
  lastCall.op = "FreeAgain" => status = "aborted" /\ lastCall.farg = -1

HeaderPlausible(aligned, hdr) ==
  hdr >= aligned - kCacheLineSize /\ hdr <= aligned - kPointerSize

\* C7 as amended: a second Free of an already-freed pointer stops at an
\* assertion exactly when the value it reads back from the header lies
\* outside [aligned - 64, aligned - 8]; otherwise it hands that value to the
\* underlying free, also when it is the block that was already released.
C7_DoubleFreeGuard ==
  lastCall.op = "FreeAgain"
    => /\ lastCall.ret % kCacheLineSize = 0
       /\ HeaderPlausible(lastCall.ret, lastCall.hdr)
            => lastCall.farg = lastCall.hdr /\ status # "aborted"
       /\ ~HeaderPlausible(lastCall.ret, lastCall.hdr)
            => lastCall.farg = -1 /\ status = "aborted"

\* A second Free handed the already-released block to the underlying free.
C7_Witness ==
  /\ lastCall.op = "FreeAgain"
  /\ lastCall.hdr = lastCall.base
  /\ lastCall.farg = lastCall.base
  /\ lastCall.base \notin LiveBases
  /\ status = "crashed"

\* C16: for a pointer aligned that Allocate(bytes) returned from a block at
\* allocated, aligned - allocated is 64 - (allocated mod 64), within
\* [kPointerSize, 64] and 64 when allocated is 64-aligned; the header
\* [aligned - kPointerSize, aligned) and the user bytes
\* [aligned, aligned + bytes) lie in the block of bytes + 64 bytes and are
\* disjoint; and the assertions of Free hold for the pointer.
C16_HeaderLayout ==
  (/\ lastCall.op = "Allocate"
   /\ status = "running"
   /\ lastCall.ret > Null)
  => LET aligned == lastCall.ret
         allocated == lastCall.mret
         bytes == SmallVal(lastCall.bytes)
         header == HeaderAddr(aligned)..(aligned - 1)
         user == aligned..(aligned + bytes - 1)
     IN /\ allocated % kPointerSize = 0
        /\ aligned - allocated = kCacheLineSize - (allocated % kCacheLineSize)
        /\ aligned - allocated >= kPointerSize
        /\ aligned - allocated <= kCacheLineSize
        /\ allocated % kCacheLineSize = 0
             => aligned - allocated = kCacheLineSize
        /\ Block(allocated, bytes + kCacheLineSize) \in heap
        /\ header \cup user
             \subseteq BlockAddrs(Block(allocated, bytes + kCacheLineSize))
        /\ header \cap user = {}
        /\ Cardinality(header) = kPointerSize
        /\ PtrAt(mem, HeaderAddr(aligned)) = allocated
        /\ FreeAsserts(aligned, PtrAt(mem, HeaderAddr(aligned)))

\* An Allocate of MaxBytes bytes whose malloc block was already 64-aligned:
\* the pointer is a whole cache line further.
C16_Witness ==
  /\ lastCall.op = "Allocate"
  /\ status = "running"
  /\ lastCall.bytes = SizeOf(MaxBytes)
  /\ lastCall.mret > Null
  /\ lastCall.mret % kCacheLineSize = 0
  /\ lastCall.ret = lastCall.mret + kCacheLineSize

====
